---- MODULE Spec2Model ----
(***************************************************************************)
(* ags_to_postgis: load of a parsed AGS document into a PostGIS schema.    *)
(* One call of ags_to_postgis (src/ags_to_postgis.py) is a process that    *)
(* validates the EPSG codes, parses the file, derives the campaign id from *)
(* the destination's "loca" layer and appends every table of the document. *)
(* The destination schema is the only state shared between calls.          *)
(***************************************************************************)
EXTENDS Integers, Sequences, FiniteSets, TLC

\* ------------------------------------------------------------------ bounds
\* Largest number of data rows of one table of a document.
MaxRows == 2
\* Largest number of tables of one document.
MaxTables == 2
\* Largest campaign_id stored in the destination before the first call.
MaxStored == 2
\* Number of calls of ags_to_postgis.
NumImports == 2

\* ------------------------------------------------------- program constants
\* The offset added to LOCA_LOCY (line 106).
YOffset == 10000

Imports == 1..NumImports

\* Python's None, as str() renders it (line 12 applies str to it).
None == "None"
\* An optional integer: <<>> is None / SQL NULL, <<v>> is the value v.
Null == <<>>
Some(v) == <<v>>

\* ----------------------------------------------------- the EPSG registry
\* pyproj.database.get_codes("EPSG", CRS): the codes, as strings.
EpsgCodes == {"27700", "4326"}

_is_epsg(epsg) == epsg \in EpsgCodes

\* ------------------------------------------------------------ documents
Keys == {"LOCA", "SAMP", "GEOL"}

\* key.lower() (lines 113, 115)
Lower(key) ==
    CASE key = "LOCA" -> "loca"
      [] key = "SAMP" -> "samp"
      [] key = "GEOL" -> "geol"

TableNames == {Lower(key) : key \in Keys}

\* Rows of a LOCA table after convert_to_numeric: the two coordinate columns.
LocaRow == { [loca_locx |-> 100, loca_locy |-> 200],
             [loca_locx |-> 300, loca_locy |-> 50] }
\* Rows of any other table.
AttrRow == { [id |-> "A1"] }

SeqsUpTo(S, n) == UNION { [1..m -> S] : m \in 0..n }

AgsTable(key) ==
    [ key : {key},
      rows : SeqsUpTo(IF key = "LOCA" THEN LocaRow ELSE AttrRow, MaxRows) ]

\* tables (line 77): an ordered mapping from key to table, keys distinct.
Documents ==
    { d \in SeqsUpTo(UNION { AgsTable(key) : key \in Keys }, MaxTables) :
        \A a, b \in 1..Len(d) : a # b => d[a].key # d[b].key }

\* --------------------------------------------------------------- geometry
\* Point(point[0], point[1] + 10000) for every row, in row order
\* (lines 104-106).
BuildPoints(rows) ==
    [ n \in 1..Len(rows) |-> <<rows[n].loca_locx, rows[n].loca_locy + YOffset>> ]

\* transformer.transform of pyproj.Transformer.from_crs(source, target,
\* always_xy=True) on one point: an affine stand-in for the projection, not
\* the identity and not commuting with the Y offset (lines 73-75, 17).
Transform(transformer, point) ==
    IF transformer.source = "4326"
    THEN <<2 * point[1] + 1, 3 * point[2]>>
    ELSE <<point[1] - 7, 2 * point[2] + 5>>

\* _transform_point_list (lines 14-19): every point, in order.
_transform_point_list(points, transformer) ==
    [ n \in 1..Len(points) |-> Transform(transformer, points[n]) ]

\* Geometry with the Y offset added after the reprojection, not before.
GeometryOffsetLast(rows, reproject, transformer) ==
    LET raw == [ n \in 1..Len(rows) |-> <<rows[n].loca_locx, rows[n].loca_locy>> ]
        out == IF reproject THEN _transform_point_list(raw, transformer) ELSE raw
    IN [ n \in 1..Len(rows) |-> <<out[n][1], out[n][2] + YOffset>> ]

\* The geometry column of the LOCA layer (lines 104-111).
Geometry(rows, reproject, transformer) ==
    IF reproject
    THEN _transform_point_list(BuildPoints(rows), transformer)
    ELSE BuildPoints(rows)

NoGeom == <<>>

\* ------------------------------------------------------------ destination
\* A stored row: campaign_id and geom are its columns; src names the call,
\* the document table and the row it was written from (0 for a row stored
\* before the first call) and stands for its remaining columns.
OldRow(c) == [campaign_id |-> c, geom |-> NoGeom, src |-> <<0, "OLD", 1>>]

\* if_exists="replace": the stored rows are dropped.
ReplaceRows(stored, rows) == rows

\* if_exists="append" (lines 113, 115): the rows are added after the
\* stored ones.
AppendRows(stored, rows) == stored \o rows

\* The campaign_id of the last stored row instead of the maximum.
LastCampaignId(rows) ==
    IF Len(rows) = 0 THEN Null ELSE Some(rows[Len(rows)].campaign_id)

\* select max(campaign_id) from loca (lines 93-95): NULL on no rows.
MaxCampaignId(rows) ==
    IF Len(rows) = 0
    THEN Null
    ELSE Some(CHOOSE m \in { rows[n].campaign_id : n \in 1..Len(rows) } :
                \A n \in 1..Len(rows) : rows[n].campaign_id <= m)

\* The maximum itself, not incremented.
SameCampaignId(m) == m

\* results[0][0] + 1 (line 97), results[0][0] not None.
NextCampaignId(m) == m + 1

\* ------------------------------------------------------------------ state
VARIABLES
    db,           \* table name -> the rows stored in it, in insertion order
    has,          \* the tables that exist in the schema (insp.has_table)
    pc,           \* call -> where it is
    arg,          \* call -> the arguments it was called with
    reproject,    \* call -> local reproject (lines 69-72)
    tables,       \* call -> local tables (line 77)
    campaign_id,  \* call -> local campaign_id (parameter, lines 85, 97)
    k,            \* call -> position of the loop over tables.keys() (line 99)
    err,          \* call -> the exception that ended it, "" for none
    hist          \* call -> history of the call (not program state)

vars == <<db, has, pc, arg, reproject, tables, campaign_id, k, err, hist>>

NoArgs ==
    [document |-> <<>>, source_epsg |-> None, target_epsg |-> None,
     campaign_id |-> Null]

NoHist ==
    [db |-> [t \in TableNames |-> <<>>], has |-> {}, parsed |-> FALSE,
     reads |-> 0, resolved |-> 0, seen |-> {}, failedAt |-> 0]

\* The destination before the first call: the loca layer absent, empty or
\* holding rows of earlier campaigns, the samp table holding a row of an
\* earlier campaign, no geol table.
InitDb ==
    { [t \in TableNames |-> IF t = "loca" THEN l ELSE IF t = "samp" THEN <<OldRow(1)>> ELSE <<>>] :
        l \in {<<>>} \cup { <<OldRow(c), OldRow(1)>> : c \in 1..MaxStored } }

Init ==
    /\ db \in InitDb
    /\ has \in { { t \in TableNames : db[t] # <<>> } \cup e : e \in SUBSET {"loca"} }
    /\ pc = [i \in Imports |-> "idle"]
    /\ arg = [i \in Imports |-> NoArgs]
    /\ reproject = [i \in Imports |-> FALSE]
    /\ tables = [i \in Imports |-> <<>>]
    /\ campaign_id = [i \in Imports |-> Null]
    /\ k = [i \in Imports |-> 0]
    /\ err = [i \in Imports |-> ""]
    /\ hist = [i \in Imports |-> NoHist]

\* ---------------------------------------------------------------- actions
\* A call of ags_to_postgis (lines 21-30) with a document and arguments
\* drawn from the given sets.
Call(i, documents, sources, targets, ids) ==
    /\ pc[i] = "idle"
    /\ \E d \in documents, s \in sources, t \in targets, c \in ids :
         arg' = [arg EXCEPT ![i] =
                    [document |-> d, source_epsg |-> s, target_epsg |-> t,
                     campaign_id |-> c]]
         /\ campaign_id' = [campaign_id EXCEPT ![i] = c]
    /\ pc' = [pc EXCEPT ![i] = "validate"]
    /\ hist' = [hist EXCEPT ![i].db = db, ![i].has = has]
    /\ UNCHANGED <<db, has, reproject, tables, k, err>>

\* The validation without the test for an absent source code.
InvalidEpsgSourceRequired(source_epsg, target_epsg) ==
    \/ ~_is_epsg(source_epsg)
    \/ ~_is_epsg(target_epsg)

\* The condition of the two raises of lines 64-67.
InvalidEpsg(source_epsg, target_epsg) ==
    \/ ~_is_epsg(source_epsg) /\ source_epsg # None
    \/ ~_is_epsg(target_epsg)

\* Lines 64-75: the EPSG codes are validated, then reproject is set.
Validate(i) ==
    /\ pc[i] = "validate"
    /\ IF InvalidEpsg(arg[i].source_epsg, arg[i].target_epsg)
       THEN /\ pc' = [pc EXCEPT ![i] = "raised"]
            /\ err' = [err EXCEPT ![i] = "ValueError"]
            /\ UNCHANGED reproject
       ELSE /\ pc' = [pc EXCEPT ![i] = "parse"]
            /\ reproject' = [reproject EXCEPT ![i] =
                   (arg[i].source_epsg # None)
                   /\ ~(arg[i].source_epsg = arg[i].target_epsg)]
            /\ UNCHANGED err
    /\ UNCHANGED <<db, has, arg, tables, campaign_id, k, hist>>

\* Line 77: tables, _ = AGS4.AGS4_to_dataframe(filepath).
AGS4_to_dataframe(i) ==
    /\ pc[i] = "parse"
    /\ tables' = [tables EXCEPT ![i] = arg[i].document]
    /\ pc' = [pc EXCEPT ![i] = "inspect"]
    /\ hist' = [hist EXCEPT ![i].parsed = TRUE]
    /\ UNCHANGED <<db, has, arg, reproject, campaign_id, k, err>>

\* Lines 83-85: insp.has_table("loca"); campaign_id = 1 when it is absent.
has_table(i) ==
    /\ pc[i] = "inspect"
    /\ IF "loca" \notin has
       THEN /\ campaign_id' = [campaign_id EXCEPT ![i] = Some(1)]
            /\ pc' = [pc EXCEPT ![i] = "loop"]
            /\ k' = [k EXCEPT ![i] = 1]
            /\ hist' = [hist EXCEPT ![i].reads = @ + 1, ![i].resolved = @ + 1]
       ELSE /\ pc' = [pc EXCEPT ![i] = "select"]
            /\ hist' = [hist EXCEPT ![i].reads = @ + 1]
            /\ UNCHANGED <<campaign_id, k>>
    /\ UNCHANGED <<db, has, arg, reproject, tables, err>>

\* Lines 87-97: select max(campaign_id) from loca, then results[0][0] + 1,
\* a TypeError when the maximum is None.
SelectMax(i) ==
    /\ pc[i] = "select"
    /\ LET results == MaxCampaignId(db["loca"]) IN
         IF results = Null
         THEN /\ pc' = [pc EXCEPT ![i] = "raised"]
              /\ err' = [err EXCEPT ![i] = "TypeError"]
              /\ hist' = [hist EXCEPT ![i].reads = @ + 1]
              /\ UNCHANGED <<campaign_id, k>>
         ELSE /\ campaign_id' = [campaign_id EXCEPT ![i] = Some(NextCampaignId(results[1]))]
              /\ pc' = [pc EXCEPT ![i] = "loop"]
              /\ k' = [k EXCEPT ![i] = 1]
              /\ hist' = [hist EXCEPT ![i].reads = @ + 1, ![i].resolved = @ + 1,
                                      ![i].seen = { db["loca"][n].src[1] : n \in 1..Len(db["loca"]) }]
              /\ UNCHANGED err
    /\ UNCHANGED <<db, has, arg, reproject, tables>>

\* The campaign id derived again from the destination at every table.
StampRederived(i) ==
    IF "loca" \notin has \/ db["loca"] = <<>>
    THEN 1
    ELSE NextCampaignId(MaxCampaignId(db["loca"])[1])

\* df["campaign_id"] = campaign_id (line 102): the value stamped on the rows.
Stamp(i) == campaign_id[i][1]

\* The rows one iteration of the loop writes (lines 100-112): every row of
\* the table stamped with the campaign id, the LOCA rows with a geometry.
Frame(i, table) ==
    LET geom == IF table.key = "LOCA"
                THEN Geometry(table.rows, reproject[i],
                              [source |-> arg[i].source_epsg, target |-> arg[i].target_epsg])
                ELSE [n \in 1..Len(table.rows) |-> NoGeom]
    IN [ n \in 1..Len(table.rows) |->
           [campaign_id |-> Stamp(i), geom |-> geom[n], src |-> <<i, table.key, n>>] ]

\* One iteration of the loop of lines 99-115: the table is appended, in one
\* transaction, to the destination table of its lower-cased name, which is
\* created when absent.
WriteTable(i) ==
    /\ pc[i] = "loop"
    /\ k[i] <= Len(tables[i])
    /\ LET table == tables[i][k[i]] IN
         /\ db' = [db EXCEPT ![Lower(table.key)] = AppendRows(@, Frame(i, table))]
         /\ has' = has \cup {Lower(table.key)}
    /\ k' = [k EXCEPT ![i] = @ + 1]
    /\ UNCHANGED <<pc, arg, reproject, tables, campaign_id, err, hist>>

\* The loop is over: the call returns None.
Return(i) ==
    /\ pc[i] = "loop"
    /\ k[i] > Len(tables[i])
    /\ pc' = [pc EXCEPT ![i] = "done"]
    /\ UNCHANGED <<db, has, arg, reproject, tables, campaign_id, k, err, hist>>

\* The exception of a table is swallowed and the loop goes on.
RaiseAndContinue(i) ==
    /\ pc[i] = "loop" /\ k[i] <= Len(tables[i])
    /\ err' = [err EXCEPT ![i] = "Error"]
    /\ hist' = [hist EXCEPT ![i].failedAt = k[i]]
    /\ k' = [k EXCEPT ![i] = @ + 1]
    /\ UNCHANGED <<db, has, pc, arg, reproject, tables, campaign_id>>

\* A collaborator raises (the parser on the file, the engine on a query or
\* a write, convert_to_numeric or the column lookup on a table): nothing in
\* lines 77-115 catches it, the call ends with the destination as it is.
Raise(i) ==
    /\ \/ pc[i] \in {"parse", "inspect", "select"}
       \/ pc[i] = "loop" /\ k[i] <= Len(tables[i])
    /\ pc' = [pc EXCEPT ![i] = "raised"]
    /\ err' = [err EXCEPT ![i] = "Error"]
    /\ hist' = [hist EXCEPT ![i].failedAt = IF pc[i] = "loop" THEN k[i] ELSE 0]
    /\ UNCHANGED <<db, has, arg, reproject, tables, campaign_id, k>>

Step(i) ==
    \/ Validate(i)
    \/ AGS4_to_dataframe(i)
    \/ has_table(i)
    \/ SelectMax(i)
    \/ WriteTable(i)
    \/ Return(i)
    \/ Raise(i)

\* ---------------------------------------------------------- specifications
SourceArgs == {None, "27700", "4326", "99999"}
TargetArgs == {"27700", "99999"}
CampaignArgs == {Null, Some(42)}

\* One call, with any document and any arguments.
Next ==
    \/ Call(1, Documents, SourceArgs, TargetArgs, CampaignArgs)
    \/ Step(1)

Spec == Init /\ [][Next]_vars

\* The documents of the specifications with several calls: a LOCA table
\* alone, with no row, before and after another table, and no LOCA table.
SmallDocuments ==
    LET loca == [key |-> "LOCA", rows |-> <<[loca_locx |-> 100, loca_locy |-> 200]>>]
        samp == [key |-> "SAMP", rows |-> <<[id |-> "A1"]>>]
    IN { <<loca>>, <<loca, samp>>, <<samp, loca>>, <<samp>>,
         <<[key |-> "LOCA", rows |-> <<>>]>> }

Finished(i) == pc[i] \in {"done", "raised"}

\* Calls one after another: a call starts when every earlier one is over.
NextSeq ==
    \/ \E i \in Imports :
         /\ \A j \in Imports : j < i => Finished(j)
         /\ Call(i, SmallDocuments, {None}, {"27700"}, {Null})
    \/ \E i \in Imports : Step(i)

SpecSeq == Init /\ [][NextSeq]_vars

\* Concurrent calls, each a process of its own against the one schema; the
\* steps of a call are its statements that reach the destination. The calls
\* are made before any of them takes a step: a call touches nothing shared.
NextConc ==
    \/ \E i \in Imports :
         /\ \A j \in Imports : j < i => pc[j] = "validate"
         /\ Call(i, SmallDocuments, {None}, {"27700"}, {Null})
    \/ \E i \in Imports : Step(i)

SpecConc == Init /\ [][NextConc]_vars

\* ------------------------------------------------------------- properties
\* The rows of stored table t that call i wrote, in stored order.
WrittenBy(i, t) == SelectSeq(db[t], LAMBDA r : r.src[1] = i)

\* The rows call i wrote from its document table key, in stored order.
WrittenFrom(i, key) ==
    SelectSeq(db[Lower(key)], LAMBDA r : r.src[1] = i /\ r.src[2] = key)

\* The campaign ids call i has stamped on rows of the destination.
Stamps(i) ==
    UNION { { db[t][n].campaign_id :
                n \in { m \in 1..Len(db[t]) : db[t][m].src[1] = i } } :
            t \in TableNames }

IsPrefix(s, t) == Len(s) <= Len(t) /\ \A n \in 1..Len(s) : s[n] = t[n]

Called(i) == pc[i] # "idle"

\* C1: a call given an explicit campaign identifier stamps that identifier
\* on every row it writes, whatever the destination holds.
C1_ExplicitIdUsed ==
    \A i \in Imports :
        arg[i].campaign_id # Null =>
            \A c \in Stamps(i) : c = arg[i].campaign_id[1]

\* C2: of calls run one after another with no explicit identifier, no two
\* stamp the same campaign identifier on the rows they write.
C2_DistinctCampaigns ==
    \A i, j \in Imports : i # j => Stamps(i) \cap Stamps(j) = {}

\* C3: with no explicit identifier the allocated identifier is 1 when the
\* schema had no loca layer, m + 1 when the layer's maximum stored
\* campaign_id was m, and so greater than every campaign_id stored in it.
C3_Allocation ==
    \A i \in Imports :
        (arg[i].campaign_id = Null /\ hist[i].resolved > 0) =>
            LET stored == hist[i].db["loca"]
                ids == { stored[n].campaign_id : n \in 1..Len(stored) }
            IN /\ "loca" \notin hist[i].has => campaign_id[i] = Some(1)
               /\ \A m \in ids :
                    (\A c \in ids : c <= m) => campaign_id[i] = Some(m + 1)
               /\ \A c \in ids : campaign_id[i][1] > c

C3_Witness ==
    \E i \in Imports :
        /\ arg[i].campaign_id = Null
        /\ pc[i] = "done"
        /\ Len(hist[i].db["loca"]) = 2
        /\ hist[i].db["loca"][1].campaign_id = 2
        /\ campaign_id[i] = Some(3)
        /\ Stamps(i) = {3}

\* C4: a call that finds the loca layer present and empty does not end in
\* the TypeError of None + 1.
C4_EmptyLayerNoTypeError ==
    \A i \in Imports :
        (Called(i) /\ "loca" \in hist[i].has /\ hist[i].db["loca"] = <<>>) =>
            err[i] # "TypeError"

\* C5: a call whose target code is unknown, or whose source code is
\* supplied and unknown, ends in the ValueError before the document is
\* parsed and before the destination is read or written; no other call
\* ends in it, so an absent source code never causes it.
C5_InvalidEpsgFailsFirst ==
    \A i \in Imports :
        Called(i) =>
            LET bad == \/ arg[i].target_epsg \notin EpsgCodes
                       \/ arg[i].source_epsg # None /\ arg[i].source_epsg \notin EpsgCodes
            IN /\ bad => /\ pc[i] \in {"validate", "raised"}
                         /\ pc[i] = "raised" => err[i] = "ValueError"
                         /\ ~hist[i].parsed
                         /\ hist[i].reads = 0
                         /\ db = hist[i].db /\ has = hist[i].has
               /\ err[i] = "ValueError" => bad

C5_Witness ==
    \E i \in Imports :
        /\ err[i] = "ValueError"
        /\ arg[i].source_epsg = "99999"
        /\ arg[i].target_epsg = "27700"
        /\ Len(arg[i].document) > 0
        /\ db["loca"] # <<>>

\* C6: a call resolves its campaign identifier once, before its first write,
\* and every row it has written, in every table, carries that value.
C6_OneCampaignPerImport ==
    \A i \in Imports :
        /\ hist[i].resolved <= 1
        /\ \A t \in TableNames : \A n \in 1..Len(db[t]) :
             db[t][n].src[1] = i =>
                /\ hist[i].resolved = 1
                /\ db[t][n].campaign_id = campaign_id[i][1]

\* The call wrote its LOCA table, which raised the maximum stored in the
\* loca layer to its own identifier, and then another table.
C6_Witness ==
    \E i \in Imports :
        /\ pc[i] = "done"
        /\ Len(tables[i]) = 2
        /\ tables[i][1].key = "LOCA"
        /\ Len(WrittenFrom(i, "LOCA")) > 0
        /\ Len(WrittenFrom(i, tables[i][2].key)) > 0
        /\ Len(hist[i].db["loca"]) > 0
        /\ MaxCampaignId(db["loca"]) = campaign_id[i]
        /\ MaxCampaignId(hist[i].db["loca"]) # campaign_id[i]

\* C7: a call that failed on its k-th table has ended; the rows of its
\* tables before the k-th are stored under its campaign identifier and no
\* row of its k-th or of a later table is.
C7_AbortKeepsEarlierTables ==
    \A i \in Imports :
        (err[i] = "Error" /\ hist[i].failedAt > 0) =>
            /\ pc[i] = "raised"
            /\ \A j \in 1..Len(tables[i]) :
                 LET stored == WrittenFrom(i, tables[i][j].key) IN
                   IF j < hist[i].failedAt
                   THEN /\ Len(stored) = Len(tables[i][j].rows)
                        /\ \A n \in 1..Len(stored) :
                             /\ stored[n].campaign_id = campaign_id[i][1]
                             /\ stored[n].src[3] = n
                   ELSE stored = <<>>

C7_Witness ==
    \E i \in Imports :
        /\ err[i] = "Error"
        /\ hist[i].failedAt = 2
        /\ Len(tables[i][1].rows) > 0
        /\ Len(tables[i][2].rows) > 0
        /\ Len(WrittenFrom(i, tables[i][1].key)) = Len(tables[i][1].rows)

\* C8: whatever a call has done so far, every row stored before it is still
\* stored, unchanged and in place, every table that existed still exists,
\* and a table the document does not name is as it was.
C8_AppendOnly ==
    \A i \in Imports :
        Called(i) =>
            \A t \in TableNames :
                /\ IsPrefix(hist[i].db[t], db[t])
                /\ t \in hist[i].has => t \in has
                /\ (\A j \in 1..Len(arg[i].document) : Lower(arg[i].document[j].key) # t)
                      => /\ db[t] = hist[i].db[t]
                         /\ (t \in has) = (t \in hist[i].has)

C8_Witness ==
    \E i \in Imports :
        /\ pc[i] = "done"
        /\ Len(hist[i].db["samp"]) > 0
        /\ Len(db["samp"]) > Len(hist[i].db["samp"])
        /\ Len(db["loca"]) > Len(hist[i].db["loca"])
        /\ Len(hist[i].db["loca"]) > 0

\* C9: the rows written from the LOCA table are the table's rows in order,
\* row n with geometry (x, y + 10000) when the source code is absent or is
\* the target code, and with the projection of (x, y + 10000) otherwise;
\* rows written from another table have no geometry.
C9_Geometry ==
    \A i \in Imports : \A j \in 1..Len(tables[i]) :
        LET table == tables[i][j]
            stored == WrittenFrom(i, table.key)
            same == arg[i].source_epsg = None \/ arg[i].source_epsg = arg[i].target_epsg
            crs == [source |-> arg[i].source_epsg, target |-> arg[i].target_epsg]
        IN (pc[i] \in {"loop", "done", "raised"} /\ j < k[i]) =>
             /\ Len(stored) = Len(table.rows)
             /\ \A n \in 1..Len(stored) :
                  LET x == table.rows[n].loca_locx
                      y == table.rows[n].loca_locy
                  IN stored[n].geom =
                       IF table.key # "LOCA" THEN NoGeom
                       ELSE IF same THEN <<x, y + 10000>>
                       ELSE Transform(crs, <<x, y + 10000>>)

C9_Witness ==
    \E i \in Imports :
        /\ pc[i] = "done"
        /\ reproject[i]
        /\ Len(WrittenFrom(i, "LOCA")) = 2
        /\ WrittenFrom(i, "LOCA")[1].geom # WrittenFrom(i, "LOCA")[2].geom
        /\ \E key \in Keys \ {"LOCA"} : Len(WrittenFrom(i, key)) > 0

====
